---- MODULE Spec2Model ----
(***************************************************************************)
(* Model of the notification bot: the SQLite store (database.py), the      *)
(* tweet fan-out of the webhook (webhook.py), the group monitor            *)
(* (monitor.py), the bot/admin handlers that touch the store and the       *)
(* shutdown handler (main.py).                                             *)
(*                                                                         *)
(* Text values whose characters the code inspects (tweet text, keywords,   *)
(* the comma separated interests) are sequences of one-character strings.  *)
(* Opaque values (chat ids, group ids, links) are strings; Null stands for *)
(* Python None / SQL NULL and "" for the empty string.                     *)
(***************************************************************************)
EXTENDS Integers, Sequences, FiniteSets, TLC

VARIABLES
    users,      \* table users, in rowid order: rows [id, chat_id, name, group_id, group_name, invite_link]
    keywords,   \* table keywords: set of rows [user_id, keyword]  (UNIQUE(user_id, keyword))
    groups,     \* table groups, in rowid order: rows [group_id, group_name, invite_link]
    tweets,     \* table tweets: set of rows [tweet_id, tweet_text, tweet_link]
    lock,       \* db_lock of each Database instance: TRUE when held
    req,        \* webhook requests (one per slot): locals of process_tweet_notification
    completed,  \* history: first completed fan-out of each post identifier
    running,    \* GroupMonitor.running
    thread,     \* GroupMonitor.thread: 0 for None, else the number of the thread
    worker,     \* the monitor threads created so far: position and locals of _monitor_loop
    linkCount,  \* number of invite links the bot platform has created
    invited,    \* history: the send_invite calls, in order
    op,         \* the bot/admin handler (or other caller) running a store operation
    bk,         \* the caller of backup_database / restore_database, and the signal handler
    backups,    \* the files of the backups directory
    taken,      \* history: the path each backup_database call returned and the store it copied
    clock,      \* datetime.now() in whole seconds
    manual,     \* history: a caller that repeats process_group(g), and the groups table after each return
    db          \* the Database() of each module: how far its constructor has come

-----------------------------------------------------------------------------
(* Values *)

Null == "<NULL>"
NullText == <<Null>>
NullName == [owner |-> Null, kws |-> <<>>]

Truthy(v) == v # Null /\ v # ""
TruthyText(t) == t # NullText /\ t # <<>>
TruthyName(n) == n # NullName

\* str.lower() on the modelled alphabet
Lower(s) ==
    LET LowerChar(c) == CASE c = "A" -> "a" [] c = "B" -> "b" [] OTHER -> c
    IN [i \in 1..Len(s) |-> LowerChar(s[i])]

\* Python's  k in t  on strings
IsSubstr(k, t) == \E i \in 0..(Len(t) - Len(k)) : SubSeq(t, i + 1, i + Len(k)) = k

\* all orders in which the rows of a result set can be returned
Orderings(S) == {s \in [1..Cardinality(S) -> S] : \A i, j \in 1..Cardinality(S) : s[i] = s[j] => i = j}

SeqToSet(s) == {s[i] : i \in 1..Len(s)}

-----------------------------------------------------------------------------
(* The Database instances: every module creates its own Database() and with *)
(* it its own db_lock; all of them open the same file.                      *)

Instances == {"webhook", "monitor", "bot_handlers", "admin_commands", "main"}

Acquire(inst) == ~lock[inst] /\ lock' = [lock EXCEPT ![inst] = TRUE]
Release(inst) == lock[inst] /\ lock' = [lock EXCEPT ![inst] = FALSE]

\* Database.__init__ calls init_db, whose  with self.get_connection()  takes the
\* new object's db_lock; CREATE TABLE IF NOT EXISTS leaves existing tables alone
InitDb(inst) ==
    /\ db[inst] = "new"
    /\ Acquire(inst)
    /\ db' = [db EXCEPT ![inst] = "init_db_in"]
    /\ UNCHANGED <<users, keywords, groups, tweets, req, completed, running, thread, worker, linkCount,
                   invited, op, bk, backups, taken, clock, manual>>

\* init_db, still inside its with block, calls add_admin_if_not_exists, whose
\* own  with self.get_connection()  asks for the same db_lock, a threading.Lock
\* (not reentrant): the call waits for as long as the lock is held
AddAdminIfNotExists(inst) ==
    /\ db[inst] = "init_db_in"
    /\ db' = [db EXCEPT ![inst] = IF lock[inst] THEN "waiting" ELSE "ready"]
    /\ UNCHANGED <<users, keywords, groups, tweets, lock, req, completed, running, thread, worker,
                   linkCount, invited, op, bk, backups, taken, clock, manual>>

storeVars == <<users, keywords, groups, tweets>>

monVars == <<running, thread, worker, invited>>

\* what the webhook handler never writes
bkVars == <<bk, backups, taken, clock>>
notWeb == <<users, keywords, groups, monVars, linkCount, op, bkVars, manual, db>>

-----------------------------------------------------------------------------
(* database.py: tweet operations *)

\* mutant: the ledger lookup never finds the identifier
IsTweetProcessedNever(tw, tweet_id) == FALSE

IsTweetProcessed(tw, tweet_id) == \E t \in tw : t.tweet_id = tweet_id

\* INSERT INTO tweets; tweet_id is UNIQUE: a second row is an IntegrityError
AddTweetRows(tw, tweet_id, tweet_text, tweet_link) ==
    IF ~\E t \in tw : t.tweet_id = tweet_id
    THEN tw \cup {[tweet_id |-> tweet_id, tweet_text |-> tweet_text, tweet_link |-> tweet_link]}
    ELSE tw

\* SELECT DISTINCT keyword FROM keywords, filtered by  kw in tweet_text_lower
MatchingKeywords(kws, tweet_text) ==
    {k.keyword : k \in {x \in kws : IsSubstr(x.keyword, Lower(tweet_text))}}

UserHasGroup(u) == u.group_id # Null /\ u.group_id # ""

\* mutant: the join without the group_id filter
FindUsersByKeywordsAnyGroup(us, kws, tweet_text) ==
    {u \in SeqToSet(us) : \E k \in kws : k.user_id = u.id /\ IsSubstr(k.keyword, Lower(tweet_text))}

\* SELECT DISTINCT u.* FROM users u JOIN keywords k ON u.id = k.user_id
\*   WHERE k.keyword IN (...) AND u.group_id IS NOT NULL AND u.group_id != ''
FindUsersByKeywords(us, kws, tweet_text) ==
    LET matching == MatchingKeywords(kws, tweet_text)
    IN IF matching = {} THEN {}
       ELSE {u \in SeqToSet(us) :
               /\ \E k \in kws : k.user_id = u.id /\ k.keyword \in matching
               /\ UserHasGroup(u)}

-----------------------------------------------------------------------------
(* database.py: user and group operations.  Each operator gives the table   *)
(* contents the committed transaction leaves and the value returned.        *)

\* str.strip()
RECURSIVE LStrip(_)
LStrip(s) == IF s # <<>> /\ Head(s) = " " THEN LStrip(Tail(s)) ELSE s
RECURSIVE RStrip(_)
RStrip(s) == IF s # <<>> /\ s[Len(s)] = " " THEN RStrip(SubSeq(s, 1, Len(s) - 1)) ELSE s
Strip(s) == RStrip(LStrip(s))

\* str.split(","): the sequence of the pieces between the commas
RECURSIVE SplitComma(_)
SplitComma(s) ==
    IF \A i \in 1..Len(s) : s[i] # ","
    THEN <<s>>
    ELSE LET i == CHOOSE j \in 1..Len(s) : s[j] = "," /\ \A k \in 1..(j - 1) : s[k] # ","
         IN <<SubSeq(s, 1, i - 1)>> \o SplitComma(SubSeq(s, i + 1, Len(s)))

\* keyword_list = [k.strip() for k in keywords.split(",") if k.strip()]
KeywordList(text) ==
    LET parts == SplitComma(text)
    IN SelectSeq([i \in 1..Len(parts) |-> Strip(parts[i])], LAMBDA k : k # <<>>)

\* the rows add_user inserts into keywords, in order
KeywordRows(user_id, text) ==
    LET kl == KeywordList(text)
    IN [i \in 1..Len(kl) |-> [user_id |-> user_id, keyword |-> Lower(kl[i])]]

\* INTEGER PRIMARY KEY without AUTOINCREMENT: one more than the largest rowid
RECURSIVE MaxId(_)
MaxId(us) == IF us = <<>> THEN 0
             ELSE LET m == MaxId(Tail(us)) IN IF Head(us).id > m THEN Head(us).id ELSE m
NextUserId(us) == MaxId(us) + 1

UserExists(us, chat_id) == \E i \in 1..Len(us) : us[i].chat_id = chat_id

\* the INSERTs of add_user raise IntegrityError when chat_id exists (UNIQUE) or a
\* keyword row (user_id, keyword) exists already or is inserted twice
AddUserOk(us, kws, chat_id, text) ==
    LET rows == KeywordRows(NextUserId(us), text)
    IN /\ ~UserExists(us, chat_id)
       /\ \A i \in 1..Len(rows) : rows[i] \notin kws
       /\ \A i, j \in 1..Len(rows) : rows[i] = rows[j] => i = j

\* mutant: the users row is committed before the keyword rows are inserted
AddUserUsersNoRollback(us, kws, chat_id, name, text) ==
    IF ~UserExists(us, chat_id)
    THEN Append(us, [id |-> NextUserId(us), chat_id |-> chat_id, name |-> name,
                     group_id |-> Null, group_name |-> NullName, invite_link |-> Null])
    ELSE us

AddUserUsers(us, kws, chat_id, name, text) ==
    IF AddUserOk(us, kws, chat_id, text)
    THEN Append(us, [id |-> NextUserId(us), chat_id |-> chat_id, name |-> name,
                     group_id |-> Null, group_name |-> NullName, invite_link |-> Null])
    ELSE us

AddUserKeywords(us, kws, chat_id, text) ==
    IF AddUserOk(us, kws, chat_id, text)
    THEN kws \cup SeqToSet(KeywordRows(NextUserId(us), text))
    ELSE kws

\* DELETE FROM users WHERE chat_id = ?  (get_connection does not enable
\* PRAGMA foreign_keys, so ON DELETE CASCADE does not act on keywords)
RemoveUserUsers(us, chat_id) == SelectSeq(us, LAMBDA u : u.chat_id # chat_id)

\* UPDATE users SET group_id, group_name, invite_link WHERE chat_id = ?
UpdateUserGroup(us, chat_id, group_id, group_name, invite_link) ==
    [i \in 1..Len(us) |->
        IF us[i].chat_id = chat_id
        THEN [us[i] EXCEPT !.group_id = group_id, !.group_name = group_name, !.invite_link = invite_link]
        ELSE us[i]]

GroupExists(gs, group_id) == \E i \in 1..Len(gs) : gs[i].group_id = group_id

\* INSERT INTO groups: group_id is NOT NULL UNIQUE
AddGroup(gs, group_id, group_name, invite_link) ==
    IF group_id # Null /\ ~GroupExists(gs, group_id)
    THEN Append(gs, [group_id |-> group_id, group_name |-> group_name, invite_link |-> invite_link])
    ELSE gs

\* UPDATE groups SET group_name, invite_link WHERE group_id = ?
UpdateGroup(gs, group_id, group_name, invite_link) ==
    [i \in 1..Len(gs) |->
        IF gs[i].group_id = group_id
        THEN [gs[i] EXCEPT !.group_name = group_name, !.invite_link = invite_link]
        ELSE gs[i]]

GroupIncomplete(g) == ~TruthyName(g.group_name) \/ ~Truthy(g.invite_link)

\* SELECT * FROM groups WHERE group_name IS NULL OR group_name = ''
\*   OR invite_link IS NULL OR invite_link = ''      (rows in table order)
GetIncompleteGroups(gs) == SelectSeq(gs, GroupIncomplete)

UserUnassigned(u) == u.group_id = Null \/ u.group_id = ""

KeywordsOf(kws, user_id) == {k.keyword : k \in {x \in kws : x.user_id = user_id}}

\* mutant: the newest unassigned user (ORDER BY created_at DESC)
GetUserWithoutGroupNewest(us) ==
    LET free == SelectSeq(us, LAMBDA u : u.group_id = Null \/ u.group_id = "")
    IN IF free = <<>> THEN <<>> ELSE <<free[Len(free)]>>

\* SELECT * FROM users WHERE group_id IS NULL OR group_id = ''
\*   ORDER BY created_at ASC LIMIT 1 : the first such row, or <<>> for None
GetUserWithoutGroup(us) ==
    LET free == SelectSeq(us, UserUnassigned)
    IN IF free = <<>> THEN <<>> ELSE <<Head(free)>>

-----------------------------------------------------------------------------
(* webhook.py: process_tweet_notification *)

Reqs == {"r1", "r2"}

Md5(link, text) == [src |-> "md5", link |-> link, text |-> text]
GivenId(v) == [src |-> "id", link |-> v, text |-> <<>>]

IdleReq == [pc |-> "idle", link |-> Null, text |-> NullText, tweet_id |-> GivenId(Null),
            users |-> <<>>, i |-> 1, delivery_count |-> 0, processed_groups |-> {},
            attempts |-> <<>>, after |-> FALSE, status |-> 0, message |-> "", matching_users |-> 0,
            unique_groups |-> 0]

\* mutant: only the link is required
MissingFieldsLinkOnly(link, text) == ~Truthy(link)

\* if not tweet_link or not tweet_text
MissingFields(link, text) == ~Truthy(link) \/ ~TruthyText(text)

\* the request's form fields; validation of link and text; the identifier
Receive(r, link, text, id) ==
    /\ req[r].pc = "idle"
    /\ IF MissingFields(link, text)
       THEN req' = [req EXCEPT ![r] = [IdleReq EXCEPT !.pc = "done", !.link = link, !.text = text,
                                        !.status = 400, !.message = "error"]]
       ELSE LET tweet_id == IF Truthy(id) THEN GivenId(id) ELSE Md5(link, text)
            IN req' = [req EXCEPT ![r] = [IdleReq EXCEPT !.pc = "check", !.link = link, !.text = text,
                                           !.tweet_id = tweet_id,
                                           !.after = \E c \in completed : c.tweet_id = tweet_id]]
    /\ UNCHANGED <<tweets, lock, completed, notWeb>>

\* db.is_tweet_processed(tweet_id): the lock is taken ...
CheckEnter(r) ==
    /\ req[r].pc = "check"
    /\ Acquire("webhook")
    /\ req' = [req EXCEPT ![r].pc = "check_in"]
    /\ UNCHANGED <<tweets, completed, notWeb>>

\* ... the query runs, the lock is released; an already processed tweet ends the request
CheckExit(r) ==
    /\ req[r].pc = "check_in"
    /\ Release("webhook")
    /\ IF IsTweetProcessed(tweets, req[r].tweet_id)
       THEN req' = [req EXCEPT ![r].pc = "done", ![r].status = 200, ![r].message = "already processed"]
       ELSE req' = [req EXCEPT ![r].pc = "find"]
    /\ UNCHANGED <<tweets, completed, notWeb>>

\* db.find_users_by_keywords(tweet_text)
FindEnter(r) ==
    /\ req[r].pc = "find"
    /\ Acquire("webhook")
    /\ req' = [req EXCEPT ![r].pc = "find_in"]
    /\ UNCHANGED <<tweets, completed, notWeb>>

\* mutant: the fan-out loop runs inside  with self.db_lock
FindExitKeepsLock(r) ==
    /\ req[r].pc = "find_in"
    /\ \E order \in Orderings(FindUsersByKeywords(users, keywords, req[r].text)) :
           req' = [req EXCEPT ![r].pc = "send", ![r].users = order, ![r].i = 1]
    /\ UNCHANGED <<tweets, lock, completed, notWeb>>

FindExit(r) ==
    /\ req[r].pc = "find_in"
    /\ Release("webhook")
    /\ \E order \in Orderings(FindUsersByKeywords(users, keywords, req[r].text)) :
           req' = [req EXCEPT ![r].pc = "send", ![r].users = order, ![r].i = 1]
    /\ UNCHANGED <<tweets, completed, notWeb>>

\* mutant: the loop does not consult processed_groups
SkipUserNoDedup(group_id, processed_groups) == ~Truthy(group_id)

\* the  not group_id or group_id in processed_groups  test of the loop
SkipUser(group_id, processed_groups) == ~Truthy(group_id) \/ group_id \in processed_groups

\* mutant: a failed delivery ends the loop
SendStepAbortOnFailure(r, ok) ==
    /\ req[r].pc = "send"
    /\ req[r].i <= Len(req[r].users)
    /\ LET group_id == req[r].users[req[r].i].group_id
       IN IF SkipUser(group_id, req[r].processed_groups)
          THEN req' = [req EXCEPT ![r].i = @ + 1]
          ELSE req' = [req EXCEPT ![r].i = IF ok THEN @ + 1 ELSE Len(req[r].users) + 1,
                                  ![r].attempts = Append(@, [group_id |-> group_id, ok |-> ok]),
                                  ![r].delivery_count = IF ok THEN @ + 1 ELSE @,
                                  ![r].processed_groups = IF ok THEN @ \cup {group_id} ELSE @]
    /\ UNCHANGED <<tweets, lock, completed, notWeb>>

\* one iteration of  for user in users ; ok is the outcome of send_tweet_to_group
SendStep(r, ok) ==
    /\ req[r].pc = "send"
    /\ req[r].i <= Len(req[r].users)
    /\ LET group_id == req[r].users[req[r].i].group_id
       IN IF SkipUser(group_id, req[r].processed_groups)
          THEN req' = [req EXCEPT ![r].i = @ + 1]
          ELSE req' = [req EXCEPT ![r].i = @ + 1,
                                  ![r].attempts = Append(@, [group_id |-> group_id, ok |-> ok]),
                                  ![r].delivery_count = IF ok THEN @ + 1 ELSE @,
                                  ![r].processed_groups = IF ok THEN @ \cup {group_id} ELSE @]
    /\ UNCHANGED <<tweets, lock, completed, notWeb>>

\* db.add_tweet(tweet_id, tweet_text, tweet_link) after the loop
AddTweetEnter(r) ==
    /\ req[r].pc = "send"
    /\ req[r].i > Len(req[r].users)
    /\ Acquire("webhook")
    /\ req' = [req EXCEPT ![r].pc = "add_in"]
    /\ UNCHANGED <<tweets, completed, notWeb>>

\* mutant: the tweet is recorded only when a delivery succeeded
AddTweetExitIfDelivered(r) ==
    /\ req[r].pc = "add_in"
    /\ Release("webhook")
    /\ tweets' = IF req[r].delivery_count > 0
                 THEN AddTweetRows(tweets, req[r].tweet_id, req[r].text, req[r].link)
                 ELSE tweets
    /\ req' = [req EXCEPT ![r].pc = "done", ![r].status = 200, ![r].message = "processed",
                          ![r].matching_users = Len(req[r].users),
                          ![r].unique_groups = Cardinality(req[r].processed_groups)]
    /\ UNCHANGED <<completed, notWeb>>

\* ... and the success response with the telemetry
AddTweetExit(r) ==
    /\ req[r].pc = "add_in"
    /\ Release("webhook")
    /\ tweets' = AddTweetRows(tweets, req[r].tweet_id, req[r].text, req[r].link)
    /\ req' = [req EXCEPT ![r].pc = "done", ![r].status = 200, ![r].message = "processed",
                          ![r].matching_users = Len(req[r].users),
                          ![r].unique_groups = Cardinality(req[r].processed_groups)]
    /\ completed' = IF \E c \in completed : c.tweet_id = req[r].tweet_id
                    THEN completed
                    ELSE completed \cup {[tweet_id |-> req[r].tweet_id, tweet_text |-> req[r].text,
                                          tweet_link |-> req[r].link]}
    /\ UNCHANGED notWeb

-----------------------------------------------------------------------------
(* monitor.py: GroupMonitor *)

MaxThreads == 2
MaxLinks == 3

Threads == 1..MaxThreads

\* the links create_chat_invite_link hands out: a new one at every call
LinkNames == <<"k1", "k2", "k3", "k4", "k5", "k6">>

NoWorker == [pc |-> "unborn", todo |-> <<>>, user |-> <<>>, invite_link |-> Null, group_name |-> NullName]

\* what the monitor threads never write
notMon == <<keywords, tweets, req, completed, op, bkVars, manual, db>>

\* the one thread setup() creates
SoleThread == {1}

\* GroupMonitor.start(); T bounds the threads that get created
Start(T) ==
    /\ bk.pc # "exited"
    /\ running \/ thread + 1 \in T
    /\ IF running
       THEN UNCHANGED <<running, thread, worker>>
       ELSE /\ running' = TRUE
            /\ thread' = thread + 1
            /\ worker' = [worker EXCEPT ![thread + 1] = [NoWorker EXCEPT !.pc = "while"]]
    /\ UNCHANGED <<storeVars, lock, req, completed, linkCount, invited, op, bkVars, manual, db>>

\* GroupMonitor.stop(): the flag is cleared; join(timeout=5.0) returns when the
\* thread has ended or the timeout has passed
Stop ==
    /\ bk.pc # "exited"
    /\ running' = FALSE
    /\ UNCHANGED <<storeVars, lock, req, completed, thread, worker, linkCount, invited, op, bkVars, manual, db>>

\* the head of  for group in incomplete_groups : groups of the fetched list that
\* have a name and an invite link are skipped
RECURSIVE SkipComplete(_)
SkipComplete(todo) ==
    IF todo # <<>> /\ TruthyName(Head(todo).group_name) /\ Truthy(Head(todo).invite_link)
    THEN SkipComplete(Tail(todo))
    ELSE todo

\* the worker's position after the loop moves to the remaining groups: the next
\* group to process, or the end of the cycle (time.sleep, then the while test)
Iterate(wk, todo) ==
    LET rest == SkipComplete(todo)
    IN [wk EXCEPT !.pc = IF rest = <<>> THEN "while" ELSE "user", !.todo = rest,
                  !.user = <<>>, !.invite_link = Null, !.group_name = NullName]

\* continue
Continue(wk) == Iterate(wk, Tail(wk.todo))

\* break, and the return when no group is incomplete
EndCycle(wk) == [NoWorker EXCEPT !.pc = "while"]

\* mutant: while True
WhileTestIgnoresFlag(w) ==
    /\ worker[w].pc = "while"
    /\ worker' = [worker EXCEPT ![w].pc = "groups"]
    /\ UNCHANGED <<storeVars, lock, running, thread, linkCount, invited, notMon>>

\* while self.running
WhileTest(w) ==
    /\ worker[w].pc = "while"
    /\ worker' = [worker EXCEPT ![w].pc = IF running THEN "groups" ELSE "exited"]
    /\ UNCHANGED <<storeVars, lock, running, thread, linkCount, invited, notMon>>

\* db.get_incomplete_groups()
GroupsEnter(w) ==
    /\ worker[w].pc = "groups"
    /\ Acquire("monitor")
    /\ worker' = [worker EXCEPT ![w].pc = "groups_in"]
    /\ UNCHANGED <<users, groups, running, thread, linkCount, invited, notMon>>

GroupsExit(w) ==
    /\ worker[w].pc = "groups_in"
    /\ Release("monitor")
    /\ worker' = [worker EXCEPT ![w] = IF GetIncompleteGroups(groups) = <<>>
                                       THEN EndCycle(@)
                                       ELSE Iterate(@, GetIncompleteGroups(groups))]
    /\ UNCHANGED <<users, groups, running, thread, linkCount, invited, notMon>>

\* db.get_user_without_group()
UserEnter(w) ==
    /\ worker[w].pc = "user"
    /\ Acquire("monitor")
    /\ worker' = [worker EXCEPT ![w].pc = "user_in"]
    /\ UNCHANGED <<users, groups, running, thread, linkCount, invited, notMon>>

\* mutant: no user: continue with the next incomplete group
UserExitNoBreak(w) ==
    /\ worker[w].pc = "user_in"
    /\ Release("monitor")
    /\ LET found == GetUserWithoutGroup(users)
       IN IF found = <<>>
          THEN worker' = [worker EXCEPT ![w] = Continue(@)]
          ELSE \E kws \in Orderings(KeywordsOf(keywords, found[1].id)) :
                  worker' = [worker EXCEPT ![w].pc = "invite",
                                           ![w].user = <<[chat_id |-> found[1].chat_id,
                                                          name |-> found[1].name, keywords |-> kws]>>]
    /\ UNCHANGED <<users, groups, running, thread, linkCount, invited, notMon>>

\* the user dict with its keywords (in the order the query returns them);
\* no user: break
UserExit(w) ==
    /\ worker[w].pc = "user_in"
    /\ Release("monitor")
    /\ LET found == GetUserWithoutGroup(users)
       IN IF found = <<>>
          THEN worker' = [worker EXCEPT ![w] = EndCycle(@)]
          ELSE \E kws \in Orderings(KeywordsOf(keywords, found[1].id)) :
                  worker' = [worker EXCEPT ![w].pc = "invite",
                                           ![w].user = <<[chat_id |-> found[1].chat_id,
                                                          name |-> found[1].name, keywords |-> kws]>>]
    /\ UNCHANGED <<users, groups, running, thread, linkCount, invited, notMon>>

\* group_name = f"Grupo de {name} - {keywords}"
GroupName(name, kws) == [owner |-> name, kws |-> kws]

\* ', '.join(user['keywords'][:3]) if user['keywords'] else 'Geral'
NameKeywords(kws) == IF kws = <<>> THEN << <<"G", "e", "r", "a", "l">> >> ELSE SubSeq(kws, 1, IF Len(kws) < 3 THEN Len(kws) ELSE 3)

\* mutant: a failed generate_invite_link ends the cycle
InviteBreakOnFailure(w, ok) ==
    /\ worker[w].pc = "invite"
    /\ IF ok
       THEN /\ linkCount < MaxLinks
            /\ linkCount' = linkCount + 1
            /\ worker' = [worker EXCEPT ![w].pc = "upd_group",
                                        ![w].invite_link = LinkNames[linkCount + 1],
                                        ![w].group_name = GroupName(worker[w].user[1].name,
                                                                    NameKeywords(worker[w].user[1].keywords))]
       ELSE /\ worker' = [worker EXCEPT ![w] = EndCycle(@)]
            /\ UNCHANGED linkCount
    /\ UNCHANGED <<storeVars, lock, running, thread, invited, req, completed, op, bkVars, manual, db>>

\* generate_invite_link(group_id): ok is whether the platform created a link;
\* then the group name is formatted
Invite(w, ok) ==
    /\ worker[w].pc = "invite"
    /\ IF ok
       THEN /\ linkCount < MaxLinks
            /\ linkCount' = linkCount + 1
            /\ worker' = [worker EXCEPT ![w].pc = "upd_group",
                                        ![w].invite_link = LinkNames[linkCount + 1],
                                        ![w].group_name = GroupName(worker[w].user[1].name,
                                                                    NameKeywords(worker[w].user[1].keywords))]
       ELSE /\ worker' = [worker EXCEPT ![w] = Continue(@)]
            /\ UNCHANGED linkCount
    /\ UNCHANGED <<storeVars, lock, running, thread, invited, req, completed, op, bkVars, manual, db>>

\* db.update_group(group_id, group_name, invite_link)
UpdGroupEnter(w) ==
    /\ worker[w].pc = "upd_group"
    /\ Acquire("monitor")
    /\ worker' = [worker EXCEPT ![w].pc = "upd_group_in"]
    /\ UNCHANGED <<users, groups, running, thread, linkCount, invited, notMon>>

UpdGroupExit(w) ==
    /\ worker[w].pc = "upd_group_in"
    /\ Release("monitor")
    /\ LET group_id == Head(worker[w].todo).group_id
       IN /\ groups' = UpdateGroup(groups, group_id, worker[w].group_name, worker[w].invite_link)
          /\ worker' = [worker EXCEPT ![w] = IF GroupExists(groups, group_id)
                                             THEN [@ EXCEPT !.pc = "upd_user"]
                                             ELSE Continue(@)]
    /\ UNCHANGED <<users, running, thread, linkCount, invited, notMon>>

\* db.update_user_group(user['chat_id'], group_id, group_name, invite_link)
UpdUserEnter(w) ==
    /\ worker[w].pc = "upd_user"
    /\ Acquire("monitor")
    /\ worker' = [worker EXCEPT ![w].pc = "upd_user_in"]
    /\ UNCHANGED <<users, groups, running, thread, linkCount, invited, notMon>>

\* mutant: the result of update_user_group is not tested
UpdUserExitIgnoreResult(w) ==
    /\ worker[w].pc = "upd_user_in"
    /\ Release("monitor")
    /\ LET chat_id == worker[w].user[1].chat_id
       IN /\ users' = UpdateUserGroup(users, chat_id, Head(worker[w].todo).group_id,
                                      worker[w].group_name, worker[w].invite_link)
          /\ worker' = [worker EXCEPT ![w].pc = "send"]
    /\ UNCHANGED <<groups, running, thread, linkCount, invited, notMon>>

UpdUserExit(w) ==
    /\ worker[w].pc = "upd_user_in"
    /\ Release("monitor")
    /\ LET chat_id == worker[w].user[1].chat_id
       IN /\ users' = UpdateUserGroup(users, chat_id, Head(worker[w].todo).group_id,
                                      worker[w].group_name, worker[w].invite_link)
          /\ worker' = [worker EXCEPT ![w] = IF UserExists(users, chat_id)
                                             THEN [@ EXCEPT !.pc = "send"]
                                             ELSE Continue(@)]
    /\ UNCHANGED <<groups, running, thread, linkCount, invited, notMon>>

\* send_invite(user['chat_id'], invite_link): ok is whether the message was sent;
\* the result is only logged
SendInvite(w, ok) ==
    /\ worker[w].pc = "send"
    /\ invited' = Append(invited, [chat_id |-> worker[w].user[1].chat_id,
                                   invite_link |-> worker[w].invite_link])
    /\ worker' = [worker EXCEPT ![w] = Continue(@)]
    /\ UNCHANGED <<storeVars, lock, running, thread, linkCount, req, completed, op, bkVars, manual, db>>

WorkerStep(w) ==
    \/ WhileTest(w)
    \/ GroupsEnter(w)
    \/ GroupsExit(w)
    \/ UserEnter(w)
    \/ UserExit(w)
    \/ \E ok \in BOOLEAN : Invite(w, ok)
    \/ UpdGroupEnter(w)
    \/ UpdGroupExit(w)
    \/ UpdUserEnter(w)
    \/ UpdUserExit(w)
    \/ \E ok \in BOOLEAN : SendInvite(w, ok)

-----------------------------------------------------------------------------
(* The callers of the store outside the webhook and the monitor thread:     *)
(* the registration conversation and the admin handlers of bot_handlers.py, *)
(* /addgroup of admin_commands.py and process_group of monitor.py.  One     *)
(* such call is in progress at a time.                                      *)

MaxUserId == 2

IdleOp == [pc |-> "idle", chat_id |-> Null, name |-> Null, text |-> <<>>, group_id |-> Null,
           force |-> FALSE, group |-> <<>>, invite_link |-> Null]

\* what these callers never write
notPg == <<tweets, req, completed, monVars, bkVars, db>>
notOp == <<notPg, manual>>

\* no caller is repeating process_group
NoManual == [group_id |-> Null, returns |-> <<>>]

\* process_group returns True: the repeating caller notes the groups table gs it leaves
Returned(gs) == IF manual = NoManual THEN manual ELSE [manual EXCEPT !.returns = Append(@, gs)]

\* handle_conversation: db.add_user(str(chat_id), name, email, intention, keywords)
AddUserEnter(chat_id, name, text) ==
    /\ op.pc = "idle"
    /\ NextUserId(users) <= MaxUserId
    /\ Acquire("bot_handlers")
    /\ op' = [IdleOp EXCEPT !.pc = "add_user_in", !.chat_id = chat_id, !.name = name, !.text = text]
    /\ UNCHANGED <<users, keywords, groups, linkCount, notOp>>

AddUserExit ==
    /\ op.pc = "add_user_in"
    /\ Release("bot_handlers")
    /\ users' = AddUserUsers(users, keywords, op.chat_id, op.name, op.text)
    /\ keywords' = AddUserKeywords(users, keywords, op.chat_id, op.text)
    /\ op' = IdleOp
    /\ UNCHANGED <<groups, linkCount, notOp>>

\* handle_remove_user / handle_admin_conversation: db.remove_user(target_id)
RemoveUserEnter(chat_id) ==
    /\ op.pc = "idle"
    /\ Acquire("bot_handlers")
    /\ op' = [IdleOp EXCEPT !.pc = "remove_user_in", !.chat_id = chat_id]
    /\ UNCHANGED <<users, keywords, groups, linkCount, notOp>>

RemoveUserExit ==
    /\ op.pc = "remove_user_in"
    /\ Release("bot_handlers")
    /\ users' = RemoveUserUsers(users, op.chat_id)
    /\ op' = IdleOp
    /\ UNCHANGED <<keywords, groups, linkCount, notOp>>

\* handle_update (/update): db.get_user_by_chat_id(str(chat_id)) ...
HandleUpdateEnter(chat_id) ==
    /\ op.pc = "idle"
    /\ Acquire("bot_handlers")
    /\ op' = [IdleOp EXCEPT !.pc = "update_in", !.chat_id = chat_id]
    /\ UNCHANGED <<users, keywords, groups, linkCount, notOp>>

\* ... a registered user is asked for the new interests (user_states[chat_id]:
\* AWAITING_INTERESTS with update_mode), any other is told to register
HandleUpdateExit ==
    /\ op.pc = "update_in"
    /\ Release("bot_handlers")
    /\ op' = IF UserExists(users, op.chat_id) THEN [op EXCEPT !.pc = "awaiting_interests"] ELSE IdleOp
    /\ UNCHANGED <<users, keywords, groups, linkCount, notOp>>

\* handle_conversation, AWAITING_INTERESTS in update_mode: the confirmation is
\* sent and the conversation state deleted; no store method is called
UpdateInterests(text) ==
    /\ op.pc = "awaiting_interests"
    /\ op' = IdleOp
    /\ UNCHANGED <<users, keywords, groups, lock, linkCount, notOp>>

\* AdminCommands.add_group: db.add_group(group_id)
AddGroupEnter(group_id) ==
    /\ op.pc = "idle"
    /\ Acquire("admin_commands")
    /\ op' = [IdleOp EXCEPT !.pc = "add_group_in", !.group_id = group_id]
    /\ UNCHANGED <<users, keywords, groups, linkCount, notOp>>

AddGroupExit ==
    /\ op.pc = "add_group_in"
    /\ Release("admin_commands")
    /\ groups' = AddGroup(groups, op.group_id, NullName, Null)
    /\ op' = IdleOp
    /\ UNCHANGED <<users, keywords, linkCount, notOp>>

\* process_group(group_id, force_update): SELECT * FROM groups WHERE group_id = ?
PgReadEnter(group_id, force) ==
    /\ op.pc = "idle"
    /\ Acquire("monitor")
    /\ op' = [IdleOp EXCEPT !.pc = "pg_read_in", !.group_id = group_id, !.force = force]
    /\ UNCHANGED <<users, keywords, groups, linkCount, notPg, manual>>

\* the branch taken on the row read
PgReadExit ==
    /\ op.pc = "pg_read_in"
    /\ Release("monitor")
    /\ LET group == SelectSeq(groups, LAMBDA g : g.group_id = op.group_id)
       IN IF group = <<>>
          THEN op' = [op EXCEPT !.pc = "pg_add"] /\ UNCHANGED manual
          ELSE IF op.force \/ ~Truthy(group[1].invite_link)
               THEN op' = [op EXCEPT !.pc = "pg_gen", !.group = group] /\ UNCHANGED manual
               ELSE op' = IdleOp /\ manual' = Returned(groups)
    /\ UNCHANGED <<users, keywords, groups, linkCount, notPg>>

\* db.add_group(group_id) for an unknown group
PgAddEnter ==
    /\ op.pc = "pg_add"
    /\ Acquire("monitor")
    /\ op' = [op EXCEPT !.pc = "pg_add_in"]
    /\ UNCHANGED <<users, keywords, groups, linkCount, notPg, manual>>

PgAddExit ==
    /\ op.pc = "pg_add_in"
    /\ Release("monitor")
    /\ groups' = AddGroup(groups, op.group_id, NullName, Null)
    /\ op' = IdleOp
    /\ manual' = Returned(groups')
    /\ UNCHANGED <<users, keywords, linkCount, notPg>>

\* generate_invite_link(group_id) for a known group
PgGenerate(ok) ==
    /\ op.pc = "pg_gen"
    /\ IF ok
       THEN /\ linkCount < MaxLinks
            /\ linkCount' = linkCount + 1
            /\ op' = [op EXCEPT !.pc = "pg_upd", !.invite_link = LinkNames[linkCount + 1]]
            /\ UNCHANGED manual
       ELSE /\ op' = IdleOp
            /\ manual' = Returned(groups)
            /\ UNCHANGED linkCount
    /\ UNCHANGED <<storeVars, lock, notPg>>

\* db.update_group(group_id, group['group_name'], invite_link)
PgUpdEnter ==
    /\ op.pc = "pg_upd"
    /\ Acquire("monitor")
    /\ op' = [op EXCEPT !.pc = "pg_upd_in"]
    /\ UNCHANGED <<users, keywords, groups, linkCount, notPg, manual>>

PgUpdExit ==
    /\ op.pc = "pg_upd_in"
    /\ Release("monitor")
    /\ groups' = UpdateGroup(groups, op.group_id, op.group[1].group_name, op.invite_link)
    /\ op' = IdleOp
    /\ manual' = Returned(groups')
    /\ UNCHANGED <<users, keywords, linkCount, notPg>>

ProcessGroupStep ==
    \/ PgReadExit
    \/ PgAddEnter
    \/ PgAddExit
    \/ \E ok \in BOOLEAN : PgGenerate(ok)
    \/ PgUpdEnter
    \/ PgUpdExit

-----------------------------------------------------------------------------
(* database.py: backup_database and restore_database, called by /backup of  *)
(* bot_handlers.py and admin_commands.py, by the restore button of          *)
(* bot_handlers.py and by signal_handler of main.py.  A backup file is      *)
(* named after the second in which backup_database was called.  The copy    *)
(* (shutil.copy2) reads or writes the database file while its caller holds  *)
(* the db_lock of the caller's Database instance only.                      *)

MaxClock == 1

\* the last backups kept in the directory
KeepBackups == 5

Tables == [users |-> users, keywords |-> keywords, groups |-> groups, tweets |-> tweets]

\* what a file copy can hold when the file went from a to b during the copy:
\* each table as it was before or after
Mix(a, b) ==
    {[users |-> u, keywords |-> k, groups |-> g, tweets |-> t] :
        u \in {a.users, b.users}, k \in {a.keywords, b.keywords},
        g \in {a.groups, b.groups}, t \in {a.tweets, b.tweets}}

IdleBk == [pc |-> "idle", inst |-> "main", file |-> 0, start |-> <<>>]

notBk == <<req, completed, thread, worker, linkCount, invited, op, manual, db>>

Tick ==
    /\ clock < MaxClock
    /\ clock' = clock + 1
    /\ UNCHANGED <<storeVars, lock, req, completed, monVars, linkCount, op, bk, backups, taken, manual, db>>

\* backup_database() is called: timestamp and backup_file
BackupCall(inst) ==
    /\ \/ bk.pc = "idle" /\ inst \in {"bot_handlers", "admin_commands"}
       \/ bk.pc = "shutdown" /\ inst = "main"
    /\ bk' = [bk EXCEPT !.pc = "backup", !.inst = inst, !.file = clock]
    /\ UNCHANGED <<storeVars, lock, running, backups, taken, clock, notBk>>

\* with self.db_lock: the copy begins
BackupEnter ==
    /\ bk.pc = "backup"
    /\ Acquire(bk.inst)
    /\ bk' = [bk EXCEPT !.pc = "backup_in", !.start = <<Tables>>]
    /\ UNCHANGED <<storeVars, running, backups, taken, clock, notBk>>

\* mutant: the first five of the sorted list are kept
PruneNewest(files) == {f \in files : Cardinality({g \in files : g.name < f.name}) < KeepBackups}

\* sorted(backups)[-5:] are kept
Prune(files) == {f \in files : Cardinality({g \in files : g.name > f.name}) < KeepBackups}

\* the copy ends, old backups are removed; the signal handler then exits the
\* process, which ends its daemon threads wherever they are
BackupExit ==
    /\ bk.pc = "backup_in"
    /\ Release(bk.inst)
    /\ \E content \in Mix(bk.start[1], Tables) :
          backups' = Prune({f \in backups : f.name # bk.file}
                           \cup {[name |-> bk.file, content |-> content]})
    /\ taken' = IF bk.start[1] = Tables
                THEN taken \cup {[name |-> bk.file, x |-> Tables]}
                ELSE taken
    /\ IF bk.inst = "main"
       THEN /\ bk' = [IdleBk EXCEPT !.pc = "exited"]
            /\ req' = [r \in Reqs |-> [req[r] EXCEPT !.pc = "dead"]]
            /\ worker' = [w \in Threads |-> [worker[w] EXCEPT !.pc = "exited"]]
            /\ op' = [op EXCEPT !.pc = "dead"]
       ELSE /\ bk' = IdleBk
            /\ UNCHANGED <<req, worker, op>>
    /\ UNCHANGED <<storeVars, running, clock, completed, thread, linkCount, invited, manual, db>>

\* restore_database(backup_file) for a file that exists: the copy begins
RestoreEnter(name) ==
    /\ bk.pc = "idle"
    /\ \E f \in backups : f.name = name
    /\ Acquire("bot_handlers")
    /\ bk' = [bk EXCEPT !.pc = "restore_in", !.inst = "bot_handlers", !.file = name, !.start = <<Tables>>]
    /\ UNCHANGED <<storeVars, running, backups, taken, clock, notBk>>

\* the copy ends: the database file is the backup, or a mix of the backup and
\* of what was committed to the file while it was being overwritten
RestoreExit ==
    /\ bk.pc = "restore_in"
    /\ Release("bot_handlers")
    /\ \E t \in (LET backup_file == CHOOSE f \in backups : f.name = bk.file
                  IN IF Tables = bk.start[1] THEN {backup_file.content}
                     ELSE Mix(backup_file.content, Tables)) :
          /\ users' = t.users
          /\ keywords' = t.keywords
          /\ groups' = t.groups
          /\ tweets' = t.tweets
    /\ bk' = IdleBk
    /\ UNCHANGED <<running, backups, taken, clock, notBk>>

\* signal_handler: monitor.stop() and remove_webhook(), then the backup
SignalHandler ==
    /\ bk.pc = "idle"
    /\ running' = FALSE
    /\ bk' = [bk EXCEPT !.pc = "shutdown"]
    /\ UNCHANGED <<storeVars, lock, backups, taken, clock, notBk>>

-----------------------------------------------------------------------------
(* Inputs *)

Chats == <<"c1", "c2", "c3">>
NameOf(chat_id) == CASE chat_id = "c1" -> "Ana" [] chat_id = "c2" -> "Bruno" [] OTHER -> "Caio"

GroupIds == {"g1", "g2"}
InviteLinks == {"k1", "k2"}

TweetLinks == {"l1"}
TweetTexts == {<<"A", "b">>, <<"c">>}
TweetIdsGiven == {"t1"}

-----------------------------------------------------------------------------
(* Fan-out on a populated store.  The store is one the reconciliation and   *)
(* the registrations leave behind: every user is unbound (NULL), bound to a *)
(* group, or carries the empty group identifier.                            *)

FanoutUsers == 2
FanoutKeywords == << <<<<"a">>>>, << <<"a">>, <<"b">> >>, <<<<"b">>>> >>

FanoutUser(i, g) ==
    [id |-> i, chat_id |-> Chats[i], name |-> NameOf(Chats[i]), group_id |-> g,
     group_name |-> IF g = Null THEN NullName ELSE GroupName(NameOf(Chats[i]), FanoutKeywords[i]),
     invite_link |-> IF g = Null THEN Null ELSE "k1"]

InitFanout ==
    /\ \E b \in [1..FanoutUsers -> GroupIds \cup {Null, ""}] :
          /\ users = [i \in 1..FanoutUsers |-> FanoutUser(i, b[i])]
          \* the groups rows of the bound groups, each completed for its first subscriber
          /\ LET G(g) == LET i == CHOOSE j \in 1..FanoutUsers : b[j] = g
                          IN [group_id |-> g, group_name |-> GroupName(NameOf(Chats[i]), FanoutKeywords[i]),
                              invite_link |-> "k1"]
             IN groups = (IF \E i \in 1..FanoutUsers : b[i] = "g1" THEN <<G("g1")>> ELSE <<>>)
                         \o (IF \E i \in 1..FanoutUsers : b[i] = "g2" THEN <<G("g2")>> ELSE <<>>)
                         \o (IF \E i \in 1..FanoutUsers : b[i] = "" THEN <<G("")>> ELSE <<>>)
    /\ keywords = UNION {{[user_id |-> i, keyword |-> k] : k \in SeqToSet(FanoutKeywords[i])} : i \in 1..FanoutUsers}
    /\ tweets = {}
    /\ lock = [i \in Instances |-> FALSE]
    /\ req = [r \in Reqs |-> IdleReq]
    /\ completed = {}
    /\ running = FALSE /\ thread = 0
    /\ worker = [w \in Threads |-> NoWorker]
    /\ linkCount = 0
    /\ invited = <<>>
    /\ op = IdleOp
    /\ bk = IdleBk /\ backups = {} /\ taken = {} /\ clock = 0
    /\ manual = NoManual
    /\ db = [i \in Instances |-> "ready"]

NextFanout ==
    \E r \in Reqs :
        \/ \E link \in TweetLinks \cup {Null}, text \in TweetTexts \cup {<<>>}, id \in TweetIdsGiven \cup {Null} :
              Receive(r, link, text, id)
        \/ CheckEnter(r)
        \/ CheckExit(r)
        \/ FindEnter(r)
        \/ FindExit(r)
        \/ \E ok \in BOOLEAN : SendStep(r, ok)
        \/ AddTweetEnter(r)
        \/ AddTweetExit(r)

vars == <<users, keywords, groups, tweets, lock, req, completed, running, thread, worker, linkCount,
          invited, op, bk, backups, taken, clock, manual, db>>

SpecFanout == InitFanout /\ [][NextFanout]_vars

-----------------------------------------------------------------------------
(* Claims about the fan-out (checked under SpecFanout) *)

Successes(r, g) == {k \in 1..Len(req[r].attempts) : req[r].attempts[k].group_id = g /\ req[r].attempts[k].ok}

\* C1: a run of process_tweet_notification that starts after a run with the same
\* post identifier has completed makes no delivery attempt and answers "already
\* processed"; the ledger keeps exactly one row for the identifier, holding the
\* text and link of the first run.
C1_SecondRunIsNoOp ==
    /\ \A r \in Reqs : (req[r].pc = "done" /\ req[r].after) =>
          /\ req[r].attempts = <<>>
          /\ req[r].status = 200 /\ req[r].message = "already processed"
    /\ \A c \in completed : {t \in tweets : t.tweet_id = c.tweet_id} = {c}

C1_Witness ==
    \E r \in Reqs : \E c \in completed :
        /\ req[r].pc = "done" /\ req[r].after /\ req[r].tweet_id = c.tweet_id
        /\ req[r].text # c.tweet_text
        /\ FindUsersByKeywords(users, keywords, req[r].text) # {}

\* C2: within one run no destination group receives more than one successful
\* delivery, however many matched subscribers are bound to it and in whatever
\* order the matcher returns them.
C2_OneSuccessPerGroup ==
    \A r \in Reqs : \A g \in GroupIds \cup {""} : Cardinality(Successes(r, g)) <= 1

C2_Witness ==
    \E r \in Reqs :
        /\ req[r].pc = "done" /\ Len(req[r].users) = 2
        /\ req[r].users[1].group_id = req[r].users[2].group_id
        /\ req[r].users[1].chat_id = "c2"
        /\ Cardinality(Successes(r, req[r].users[1].group_id)) = 1

\* C3: for every bound subscriber S and text T containing one of S's keywords, a
\* fan-out of T returns S from the matcher and counts S's group in its group set.
C3_BoundMatchInGroupSet ==
    \A r \in Reqs : (req[r].pc = "done" /\ req[r].message = "processed") =>
        \A u \in SeqToSet(users) : (UserHasGroup(u) /\ \E k \in keywords : k.user_id = u.id /\ IsSubstr(k.keyword, req[r].text)) =>
            /\ u \in SeqToSet(req[r].users)
            /\ u.group_id \in req[r].processed_groups

\* C4: a subscriber with an empty binding (NULL or '') is never returned by the
\* matcher and never causes a delivery attempt, also when all its keywords occur
\* in the text.
C4_UnboundNeverTargeted ==
    \A r \in Reqs :
        /\ \A i \in 1..Len(req[r].users) : UserHasGroup(req[r].users[i])
        /\ \A k \in 1..Len(req[r].attempts) :
              /\ Truthy(req[r].attempts[k].group_id)
              /\ \E u \in SeqToSet(users) : UserHasGroup(u) /\ u.group_id = req[r].attempts[k].group_id

C4_Witness ==
    \E r \in Reqs : \E u \in SeqToSet(users) :
        /\ req[r].pc = "done" /\ req[r].message = "processed"
        /\ u.group_id = ""
        /\ \A k \in keywords : k.user_id = u.id => IsSubstr(k.keyword, Lower(req[r].text))
        /\ req[r].attempts # <<>>

\* C5: every post notification with link and text ends with its identifier in the
\* ledger, whatever the delivery outcomes (none matched, all failed, all succeeded).
C5_AlwaysRecorded ==
    \A r \in Reqs : (req[r].pc = "done" /\ Truthy(req[r].link) /\ TruthyText(req[r].text)) =>
        /\ req[r].status = 200
        /\ IsTweetProcessed(tweets, req[r].tweet_id)

C5_Witness ==
    \E r \in Reqs :
        /\ req[r].pc = "done" /\ req[r].message = "processed"
        /\ Len(req[r].attempts) = 2
        /\ \A k \in 1..Len(req[r].attempts) : ~req[r].attempts[k].ok

-----------------------------------------------------------------------------
(* Reconciliation: the monitor threads, start/stop, registrations, removals, *)
(* /addgroup and process_group on a store that starts empty.                 *)

RegChats == {"c1", "c2"}
RegKeywordTexts == {<<"a">>}
RegGroupIds == {"g1", ""}

Init ==
    /\ users = <<>> /\ keywords = {} /\ groups = <<>> /\ tweets = {}
    /\ lock = [i \in Instances |-> FALSE]
    /\ req = [r \in Reqs |-> IdleReq]
    /\ completed = {}
    /\ running = FALSE /\ thread = 0
    /\ worker = [w \in Threads |-> NoWorker]
    /\ linkCount = 0
    /\ invited = <<>>
    /\ op = IdleOp
    /\ bk = IdleBk /\ backups = {} /\ taken = {} /\ clock = 0
    /\ manual = NoManual
    /\ db = [i \in Instances |-> "ready"]

NextRecon ==
    \/ Start(SoleThread)
    \/ Stop
    \/ \E w \in Threads : WorkerStep(w)
    \/ \E c \in RegChats, t \in RegKeywordTexts : AddUserEnter(c, NameOf(c), t)
    \/ AddUserExit
    \/ \E c \in RegChats : RemoveUserEnter(c)
    \/ RemoveUserExit
    \/ \E g \in RegGroupIds : AddGroupEnter(g)
    \/ AddGroupExit
    \/ \E g \in RegGroupIds, f \in BOOLEAN : PgReadEnter(g, f)
    \/ ProcessGroupStep

SpecRecon == Init /\ [][NextRecon]_vars

\* C6: in every reachable state no two distinct subscribers are bound to the
\* same group identifier, whatever the interleaving of reconciliation cycles,
\* registrations, removals, process_group calls and monitor start/stop calls.
C6_NoSharedGroup ==
    \A i, j \in 1..Len(users) :
        (i # j /\ UserHasGroup(users[i]) /\ UserHasGroup(users[j])) =>
            users[i].group_id # users[j].group_id

\* C7: in every reachable state the three binding fields of each subscriber
\* (group identifier, group display name, invitation reference) are all empty
\* or all non-empty, for every group identifier the store accepts, the empty
\* string added through add_group included.
C7_BindingAllOrNothing ==
    \A i \in 1..Len(users) :
        LET u == users[i]
        IN \/ ~Truthy(u.group_id) /\ ~TruthyName(u.group_name) /\ ~Truthy(u.invite_link)
           \/ Truthy(u.group_id) /\ TruthyName(u.group_name) /\ Truthy(u.invite_link)

-----------------------------------------------------------------------------
(* The store under all of its callers: one webhook request, the monitor     *)
(* thread looking for incomplete groups, an /addgroup, backups, a restore   *)
(* and the shutdown, on a store that starts empty.                          *)

StoreReqs == {"r1"}
StoreGroupIds == {"g1"}

NextStore ==
    \/ \E r \in StoreReqs, link \in TweetLinks, text \in {<<"c">>} : Receive(r, link, text, Null)
    \/ \E r \in StoreReqs : CheckEnter(r) \/ CheckExit(r) \/ FindEnter(r) \/ FindExit(r)
    \/ \E r \in StoreReqs : AddTweetEnter(r) \/ AddTweetExit(r)
    \/ Start(SoleThread)
    \/ \E w \in Threads : WhileTest(w) \/ GroupsEnter(w) \/ GroupsExit(w) \/ UserEnter(w) \/ UserExit(w)
    \/ \E g \in StoreGroupIds : AddGroupEnter(g)
    \/ AddGroupExit
    \/ Tick
    \/ \E inst \in Instances : BackupCall(inst)
    \/ BackupEnter
    \/ BackupExit
    \/ \E name \in 0..MaxClock : RestoreEnter(name)
    \/ RestoreExit
    \/ SignalHandler

SpecStore == Init /\ [][NextStore]_vars

\* the callers that are inside a store operation, holding the db_lock of
\* their Database instance
ReqInStore(r) == req[r].pc \in {"check_in", "find_in", "add_in"}
WorkerInStore(w) == worker[w].pc \in {"groups_in", "user_in", "upd_group_in", "upd_user_in"}
BkInStore == bk.pc \in {"backup_in", "restore_in"}
InStore ==
    {<<"webhook", r>> : r \in {x \in Reqs : ReqInStore(x)}}
    \cup {<<"monitor", w>> : w \in {x \in Threads : WorkerInStore(x)}}
    \cup (IF op.pc \in {"add_user_in", "remove_user_in", "add_group_in", "pg_read_in", "pg_add_in",
                       "pg_upd_in", "get_user_in", "list_users_in"}
          THEN {<<"handler", 0>>} ELSE {})
    \cup (IF BkInStore THEN {<<bk.inst, 0>>} ELSE {})

\* C8: at no time are two store operations in progress: an operation of the
\* webhook handler, the reconciliation worker, the bot/admin handlers or the
\* shutdown handler excludes every operation of the others.
C8_OneStoreOperation == Cardinality(InStore) <= 1

\* C9: the file copy of backup_database and of restore_database never
\* overlaps a store operation of the webhook handler or of the
\* reconciliation worker.
C9_CopyExcludesDomainOps ==
    BkInStore => /\ \A r \in Reqs : ~ReqInStore(r)
                 /\ \A w \in Threads : ~WorkerInStore(w)

\* C10: backup-then-restore round trip: when restore_database returns, having
\* been applied to the path a backup_database call returned for a store X
\* (no operation changed the store during that copy), the users, groups,
\* keywords and tweets relations equal those of X, whatever was done between
\* the backup and the restore.
C10_RoundTrip ==
    [][RestoreExit => \A b \in taken : b.name = bk.file => Tables' = b.x]_vars

-----------------------------------------------------------------------------
(* Registrations and removals on a store that starts empty, with interest   *)
(* texts that repeat a term, differ in case and carry blanks and empties.   *)

KeywordTexts == {<<"a">>, <<"b", ",", "a">>, <<"a", ",", " ", "A">>, <<" ", "b", ",", ",">>, <<>>}

NextReg ==
    \/ \E i \in 1..Len(Chats), t \in KeywordTexts : AddUserEnter(Chats[i], NameOf(Chats[i]), t)
    \/ AddUserExit
    \/ \E i \in 1..Len(Chats) : RemoveUserEnter(Chats[i])
    \/ RemoveUserExit
    \/ \E i \in 1..Len(Chats) : HandleUpdateEnter(Chats[i])
    \/ HandleUpdateExit
    \/ \E t \in KeywordTexts : UpdateInterests(t)

SpecReg == Init /\ [][NextReg]_vars

\* C11: add_user called with an address not present succeeds, and afterwards
\* the subscriber's stored keyword set is exactly the set of terms of the
\* keywords text; a term repeated in the text (also when the repetitions
\* differ by case or surrounding whitespace) is stored once, without error.
C11_AddUserStoresTerms ==
    [][(AddUserExit /\ ~UserExists(users, op.chat_id)) =>
         \E i \in 1..Len(users') :
            /\ users'[i].chat_id = op.chat_id
            /\ KeywordsOf(keywords', users'[i].id) = {Lower(k) : k \in SeqToSet(KeywordList(op.text))}]_vars

\* C12: remove_user leaves no keyword row of the removed subscriber, hence in
\* every reachable state every keyword row refers to an existing subscriber.
C12_NoOrphanKeywords ==
    \A k \in keywords : \E i \in 1..Len(users) : users[i].id = k.user_id

-----------------------------------------------------------------------------
(* Storage errors.  sqlite3 raises inside a store operation (the database   *)
(* is locked, the disk or the file is bad): nothing is committed, the with   *)
(* statements close the connection and release the db_lock, and the error   *)
(* is turned into a failure value by the operations that have a try/except  *)
(* and leaves the others as an exception in their caller ("raised").        *)

\* is_tweet_processed has no try/except: the error reaches webhook()
CheckFault(r) ==
    /\ req[r].pc = "check_in"
    /\ Release("webhook")
    /\ req' = [req EXCEPT ![r].pc = "raised"]
    /\ UNCHANGED <<tweets, completed, notWeb>>

\* find_users_by_keywords has no try/except
FindFault(r) ==
    /\ req[r].pc = "find_in"
    /\ Release("webhook")
    /\ req' = [req EXCEPT ![r].pc = "raised"]
    /\ UNCHANGED <<tweets, completed, notWeb>>

\* add_tweet: except Exception: return False; the request goes on to its response
AddTweetFault(r) ==
    /\ req[r].pc = "add_in"
    /\ Release("webhook")
    /\ req' = [req EXCEPT ![r].pc = "done", ![r].status = 200, ![r].message = "processed",
                          ![r].matching_users = Len(req[r].users),
                          ![r].unique_groups = Cardinality(req[r].processed_groups)]
    /\ UNCHANGED <<tweets, completed, notWeb>>

\* webhook(): except Exception: return jsonify({"error": str(e)}), 500
WebhookExcept(r) ==
    /\ req[r].pc = "raised"
    /\ req' = [req EXCEPT ![r].pc = "done", ![r].status = 500, ![r].message = "error"]
    /\ UNCHANGED <<tweets, lock, completed, notWeb>>

\* get_incomplete_groups, get_user_without_group, update_group and
\* update_user_group have no try/except: the error reaches _monitor_loop
WorkerFault(w) ==
    /\ WorkerInStore(w)
    /\ Release("monitor")
    /\ worker' = [worker EXCEPT ![w].pc = "raised"]
    /\ UNCHANGED <<users, groups, running, thread, linkCount, invited, notMon>>

\* _monitor_loop without its try/except: the exception ends the thread
LoopExceptEndsThread(w) ==
    /\ worker[w].pc = "raised"
    /\ worker' = [worker EXCEPT ![w] = [NoWorker EXCEPT !.pc = "exited"]]
    /\ UNCHANGED <<storeVars, lock, running, thread, linkCount, invited, notMon>>

\* _monitor_loop: except Exception: logger.error; then time.sleep and the while test
LoopExcept(w) ==
    /\ worker[w].pc = "raised"
    /\ worker' = [worker EXCEPT ![w] = EndCycle(@)]
    /\ UNCHANGED <<storeVars, lock, running, thread, linkCount, invited, notMon>>

\* add_user, remove_user: except Exception: return None / False
HandlerFault ==
    /\ op.pc \in {"add_user_in", "remove_user_in"}
    /\ Release("bot_handlers")
    /\ op' = IdleOp
    /\ UNCHANGED <<users, keywords, groups, linkCount, notOp>>

\* add_group: except Exception: return None
AddGroupFault ==
    /\ op.pc = "add_group_in"
    /\ Release("admin_commands")
    /\ op' = IdleOp
    /\ UNCHANGED <<users, keywords, groups, linkCount, notOp>>

\* process_group: add_group returns None and process_group goes on
PgAddFault ==
    /\ op.pc = "pg_add_in"
    /\ Release("monitor")
    /\ op' = IdleOp
    /\ manual' = Returned(groups)
    /\ UNCHANGED <<users, keywords, groups, linkCount, notPg>>

\* get_user_by_chat_id(chat_id) and list_users(with_keywords=True) of the
\* bot handlers: reads of the store
ReadEnter(name) ==
    /\ op.pc = "idle"
    /\ Acquire("bot_handlers")
    /\ op' = [IdleOp EXCEPT !.pc = name]
    /\ UNCHANGED <<users, keywords, groups, linkCount, notOp>>

ReadExit ==
    /\ op.pc \in {"get_user_in", "list_users_in"}
    /\ Release("bot_handlers")
    /\ op' = IdleOp
    /\ UNCHANGED <<users, keywords, groups, linkCount, notOp>>

\* get_user_by_chat_id and list_users have no try/except
ReadFault ==
    /\ op.pc \in {"get_user_in", "list_users_in"}
    /\ Release("bot_handlers")
    /\ op' = [op EXCEPT !.pc = "raised"]
    /\ UNCHANGED <<users, keywords, groups, linkCount, notOp>>

\* process_group: the error of update_group reaches process_group
PgUpdFault ==
    /\ op.pc = "pg_upd_in"
    /\ Release("monitor")
    /\ op' = [op EXCEPT !.pc = "raised"]
    /\ UNCHANGED <<users, keywords, groups, linkCount, notOp>>

\* the caller's handler of the exception: process_group returns False, the
\* bot framework logs the error of a message handler
OpExcept ==
    /\ op.pc = "raised"
    /\ op' = IdleOp
    /\ UNCHANGED <<storeVars, lock, linkCount, notOp>>

FaultChats == {"c1"}

NextFault ==
    \/ \E r \in StoreReqs, link \in TweetLinks, text \in RegKeywordTexts : Receive(r, link, text, Null)
    \/ \E r \in StoreReqs : CheckEnter(r) \/ CheckExit(r) \/ FindEnter(r) \/ FindExit(r)
    \/ \E r \in StoreReqs, ok \in BOOLEAN : SendStep(r, ok)
    \/ \E r \in StoreReqs : AddTweetEnter(r) \/ AddTweetExit(r)
    \/ \E r \in StoreReqs : CheckFault(r) \/ FindFault(r) \/ AddTweetFault(r) \/ WebhookExcept(r)
    \/ Start(SoleThread)
    \/ \E w \in Threads : WorkerStep(w) \/ WorkerFault(w) \/ LoopExcept(w)
    \/ \E c \in FaultChats, t \in RegKeywordTexts : AddUserEnter(c, NameOf(c), t)
    \/ AddUserExit
    \/ \E c \in FaultChats : RemoveUserEnter(c)
    \/ RemoveUserExit
    \/ HandlerFault
    \/ \E g \in StoreGroupIds : AddGroupEnter(g)
    \/ AddGroupExit
    \/ AddGroupFault
    \/ \E name \in {"get_user_in", "list_users_in"} : ReadEnter(name)
    \/ ReadExit
    \/ ReadFault
    \/ \E g \in StoreGroupIds, f \in BOOLEAN : PgReadEnter(g, f)
    \/ ProcessGroupStep
    \/ PgAddFault
    \/ PgUpdFault
    \/ OpExcept

SpecFault == Init /\ [][NextFault]_vars

\* C13: no store operation propagates an exception to its caller: when the
\* storage raises during add_user, get_user_by_chat_id, remove_user,
\* list_users, update_user_group, add_group, update_group,
\* get_incomplete_groups, get_user_without_group, add_tweet,
\* is_tweet_processed or find_users_by_keywords, the operation returns a
\* failure value or the empty result, so no caller is ever left handling an
\* exception of the store.
C13_NoExceptionCrossesStore ==
    /\ \A r \in Reqs : req[r].pc # "raised"
    /\ \A w \in Threads : worker[w].pc # "raised"
    /\ op.pc # "raised"

-----------------------------------------------------------------------------
(* Further claims about the fan-out (checked under SpecFanout) *)

\* C14: the telemetry of a successful fan-out: matching_users is the number of
\* subscribers the matcher returned, unique_groups the number of distinct
\* destination groups of those subscribers, delivery_count the number of
\* groups delivery succeeded to, for every pattern of successes and failures.
C14_Telemetry ==
    \A r \in Reqs : (req[r].pc = "done" /\ req[r].message = "processed") =>
        /\ req[r].matching_users = Len(req[r].users)
        /\ LET MatchedGroups == {req[r].users[i].group_id : i \in 1..Len(req[r].users)}
           IN /\ req[r].unique_groups = Cardinality(MatchedGroups)
              /\ req[r].delivery_count = Cardinality({g \in MatchedGroups : Successes(r, g) # {}})

\* C15: delivery failures are isolated per group: in a finished fan-out every
\* group of a matched subscriber has received at least one delivery attempt,
\* whatever the outcome of the attempts to the other groups, and the post is
\* in the ledger.
C15_FailuresIsolated ==
    \A r \in Reqs : (req[r].pc = "done" /\ req[r].message = "processed") =>
        /\ \A g \in {req[r].users[i].group_id : i \in 1..Len(req[r].users)} : \E k \in 1..Len(req[r].attempts) : req[r].attempts[k].group_id = g
        /\ IsTweetProcessed(tweets, req[r].tweet_id)

C15_Witness ==
    \E r \in Reqs :
        /\ req[r].pc = "done" /\ req[r].message = "processed"
        /\ Len(req[r].attempts) = 2
        /\ ~req[r].attempts[1].ok /\ req[r].attempts[2].ok
        /\ req[r].attempts[1].group_id # req[r].attempts[2].group_id

\* C21: a post notification lacking link or lacking text is answered with
\* status 400 and has no effect: the step that receives it ends the request
\* and changes no relation, and the request never matches keywords, never
\* attempts a delivery and never reaches the ledger.
C21_MissingFieldRejected ==
    /\ [](\A r \in Reqs :
            (req[r].pc # "idle" /\ (~Truthy(req[r].link) \/ ~TruthyText(req[r].text))) =>
                /\ req[r].pc = "done" /\ req[r].status = 400
                /\ req[r].users = <<>> /\ req[r].attempts = <<>>
                /\ ~IsTweetProcessed(tweets, req[r].tweet_id))
    /\ [][\A r \in Reqs :
            (req[r].pc = "idle" /\ req'[r].pc # "idle"
                /\ (~Truthy(req'[r].link) \/ ~TruthyText(req'[r].text))) =>
                UNCHANGED <<users, keywords, groups, tweets, completed>>]_vars

\* a request with a link and no text is rejected on a store that holds a
\* matching subscriber, while the other request has been fanned out
C21_Witness ==
    \E r, q \in Reqs :
        /\ req[r].pc = "done" /\ req[r].status = 400
        /\ req[r].link = "l1" /\ req[r].text = <<>>
        /\ req[q].pc = "done" /\ req[q].attempts # <<>>

\* C25: when two post notifications carrying the same post identifier are
\* handled with their steps interleaved, each destination group receives the
\* post at most once in total across both requests, and the ledger ends
\* with exactly one entry for the identifier.
C25_OncePerGroupAcrossRequests ==
    \A r, q \in Reqs :
        (r # q /\ (\A x \in {r, q} : req[x].pc # "idle" /\ req[x].status # 400)
               /\ req[r].tweet_id = req[q].tweet_id) =>
            /\ \A g \in GroupIds \cup {""} : Cardinality(Successes(r, g)) + Cardinality(Successes(q, g)) <= 1
            /\ (req[r].pc = "done" /\ req[q].pc = "done") =>
                  Cardinality({t \in tweets : t.tweet_id = req[r].tweet_id}) = 1

-----------------------------------------------------------------------------
(* One reconciliation cycle on its own: the store holds exactly one         *)
(* incomplete group and at least one unassigned user, the monitor thread is *)
(* about to fetch the incomplete groups, generate_invite_link succeeds and  *)
(* nothing else touches the store.                                          *)


\* the incomplete group: as add_group leaves it, or with the invite link a
\* process_group call has stored on it
CycleGroup(g, link) == [group_id |-> g, group_name |-> NullName, invite_link |-> link]

InitCycle ==
    /\ \E n \in 1..2 : \E b \in [1..n -> {Null, "g2"}] :
          /\ \E i \in 1..n : b[i] = Null
          /\ users = [i \in 1..n |-> FanoutUser(i, b[i])]
          /\ keywords = UNION {{[user_id |-> i, keyword |-> k] : k \in SeqToSet(FanoutKeywords[i])} : i \in 1..n}
          /\ \E g \in RegGroupIds, link \in {Null, "k1"} :
                groups = (IF \E i \in 1..n : b[i] = "g2"
                          THEN LET i == CHOOSE j \in 1..n : b[j] = "g2"
                               IN <<[group_id |-> "g2", group_name |-> FanoutUser(i, "g2").group_name,
                                     invite_link |-> "k1"]>>
                          ELSE <<>>)
                         \o <<CycleGroup(g, IF \E i \in 1..n : b[i] = "g2" THEN Null ELSE link)>>
    /\ tweets = {}
    /\ lock = [i \in Instances |-> FALSE]
    /\ req = [r \in Reqs |-> IdleReq]
    /\ completed = {}
    /\ running \in BOOLEAN /\ thread = 1
    /\ worker = [w \in Threads |-> [NoWorker EXCEPT !.pc = "groups"]]
    /\ linkCount = 1
    /\ invited = <<>>
    /\ op = IdleOp
    /\ bk = IdleBk /\ backups = {} /\ taken = {} /\ clock = 0
    /\ manual = NoManual
    /\ db = [i \in Instances |-> "ready"]

NextCycle ==
    \E w \in {1} :
        \/ WhileTest(w)
        \/ GroupsEnter(w)
        \/ GroupsExit(w)
        \/ UserEnter(w)
        \/ UserExit(w)
        \/ Invite(w, TRUE)
        \/ UpdGroupEnter(w)
        \/ UpdGroupExit(w)
        \/ UpdUserEnter(w)
        \/ UpdUserExit(w)
        \/ \E ok \in BOOLEAN : SendInvite(w, ok)

SpecCycle == InitCycle /\ [][NextCycle]_vars

\* C16: one reconciliation cycle on a store with exactly one incomplete group
\* G and at least one unassigned subscriber, with provisioning and both
\* persistence steps succeeding, ends with G complete, the oldest unassigned
\* subscriber bound to G with the display name and invitation reference
\* stored on G, and exactly one invitation delivery attempt, addressed to
\* that subscriber.
C16_CycleBindsOldest ==
    worker[1].pc \in {"while", "exited"} =>
        /\ GetIncompleteGroups(groups) = <<>>
        /\ \E i \in 1..Len(users) : \E j \in 1..Len(groups) :
              /\ groups[j].group_id \in RegGroupIds
              /\ users[i].group_id = groups[j].group_id
              /\ users[i].group_name = groups[j].group_name
              /\ users[i].invite_link = groups[j].invite_link
              /\ \A k \in 1..(i - 1) : users[k].group_id = "g2"
              /\ invited = <<[chat_id |-> users[i].chat_id, invite_link |-> groups[j].invite_link]>>

C16_Witness ==
    /\ worker[1].pc \in {"while", "exited"}
    /\ Len(users) = 2
    /\ users[1].group_id = "g1" /\ users[2].group_id = Null
    /\ Len(invited) = 1

-----------------------------------------------------------------------------
(* Further claims about the reconciliation (checked under SpecRecon) *)

\* C17: when a reconciliation cycle reaches an incomplete group and no
\* unassigned subscriber exists, the cycle ends there: the worker drops the
\* remaining incomplete groups, and the step changes no group and no
\* subscriber, provisions no invitation and delivers none.
C17_NoUserEndsCycle ==
    [][\A w \in Threads :
          (worker[w].pc = "user_in" /\ worker'[w].pc # "user_in" /\ GetUserWithoutGroup(users) = <<>>) =>
              /\ worker'[w].pc = "while" /\ worker'[w].todo = <<>>
              /\ UNCHANGED <<users, keywords, groups, linkCount, invited>>]_vars

\* two incomplete groups fetched, no unassigned subscriber
C17_Witness ==
    \E w \in Threads :
        /\ worker[w].pc = "user_in" /\ Len(worker[w].todo) = 2
        /\ GetUserWithoutGroup(users) = <<>>
        /\ Len(GetIncompleteGroups(groups)) = 2

-----------------------------------------------------------------------------
(* The monitor under start() and stop() calls: stop() clears the flag and   *)
(* waits at most five seconds for a thread that sleeps poll_interval (60    *)
(* seconds) between cycles, so it can return while the thread is alive.     *)


NextMonitor ==
    \/ Start(Threads)
    \/ Stop
    \/ \E w \in Threads : WorkerStep(w)
    \/ \E c \in RegChats, t \in RegKeywordTexts : AddUserEnter(c, NameOf(c), t)
    \/ AddUserExit
    \/ \E g \in GroupIds : AddGroupEnter(g)
    \/ AddGroupExit

SpecMonitor == Init /\ [][NextMonitor]_vars

\* the thread is inside _process_groups
InCycle(w) == worker[w].pc \in {"groups", "groups_in", "user", "user_in", "invite", "upd_group",
                                "upd_group_in", "upd_user", "upd_user_in", "send"}

\* C18: for every sequence of start() and stop() calls, stop() immediately
\* followed by start() included, at most one worker executes the monitoring
\* loop at any time, so no two reconciliation cycles run concurrently.
C18_OneWorker == Cardinality({w \in Threads : InCycle(w)}) <= 1

\* C19: on shutdown, when GroupMonitor.stop() has returned the worker is not
\* inside a reconciliation cycle: while the signal handler is about to take
\* or is taking its final backup, no monitor thread is in _process_groups.
C19_BackupAfterLastCycle ==
    (bk.pc = "shutdown" \/ (bk.inst = "main" /\ bk.pc \in {"backup", "backup_in"})) =>
        \A w \in Threads : ~InCycle(w)

\* C23: once a subscriber's group binding is non-empty it never changes
\* again while the subscriber is not removed: no step of any worker's cycle
\* or of any other operation binds the subscriber to a different group or
\* clears the binding.
C23_BindingNeverChanges ==
    [][\A u \in SeqToSet(users) : \A v \in SeqToSet(users') :
          (UserHasGroup(u) /\ v.id = u.id /\ v.chat_id = u.chat_id) => v.group_id = u.group_id]_vars

\* C24: a group is completed exactly once: a group that has a non-empty
\* display name and a non-empty invitation reference has both in every later
\* state, under any interleaving of reconciliation cycles with process_group
\* calls.
C24_CompleteStaysComplete ==
    [][\A i \in 1..Len(groups) : \A j \in 1..Len(groups') :
          (~GroupIncomplete(groups[i]) /\ groups'[j].group_id = groups[i].group_id) =>
              ~GroupIncomplete(groups'[j])]_vars

\* C29: subscribers are bound in creation order: whenever a worker selects a
\* subscriber B, and whenever it writes the binding of B, every subscriber
\* created strictly earlier than B that exists has a non-empty binding.
C29_BoundInCreationOrder ==
    [][\A w \in Threads :
          /\ (worker[w].pc = "user_in" /\ worker'[w].pc = "invite") =>
                \A i, j \in 1..Len(users) :
                    (users[j].chat_id = worker'[w].user[1].chat_id /\ i < j) => UserHasGroup(users[i])
          /\ (worker[w].pc = "upd_user_in" /\ users' # users) =>
                \A i, j \in 1..Len(users') :
                    (users'[j].chat_id = worker[w].user[1].chat_id /\ i < j) => UserHasGroup(users'[i])]_vars

\* C28: a group that is complete in the store at the moment the iteration of
\* a cycle reaches it (another path completed it after the cycle fetched its
\* list) is skipped: the cycle does not go on to look for a subscriber, to
\* provision an invitation and to write the group for it.
C28_CompleteGroupSkipped ==
    [][\A w \in Threads :
          (/\ worker'[w].pc = "user"
           /\ worker[w].pc # "user_in"
           /\ worker[w].pc # "user" \/ worker'[w].todo # worker[w].todo) =>
              \A i \in 1..Len(groups') :
                  groups'[i].group_id = Head(worker'[w].todo).group_id => GroupIncomplete(groups'[i])]_vars

-----------------------------------------------------------------------------
(* Successive backups into a directory that already holds the files of up   *)
(* to five earlier backups (taken in the seconds before second 0), by       *)
(* /backup of either module and by the signal handler, one call at a time.  *)


InitBackup ==
    /\ users = <<>> /\ keywords = {} /\ groups = <<>> /\ tweets = {}
    /\ lock = [i \in Instances |-> FALSE]
    /\ req = [r \in Reqs |-> IdleReq]
    /\ completed = {}
    /\ running = FALSE /\ thread = 0
    /\ worker = [w \in Threads |-> NoWorker]
    /\ linkCount = 0
    /\ invited = <<>>
    /\ op = IdleOp
    /\ bk = IdleBk /\ clock = 0
    /\ manual = NoManual
    /\ db = [i \in Instances |-> "ready"]
    \* the files of n earlier backups of this (empty) store, taken in the
    \* seconds before second 0
    /\ \E n \in 0..KeepBackups :
          /\ backups = {[name |-> 0 - k, content |-> Tables] : k \in 1..n}
          /\ taken = {[name |-> 0 - k, x |-> Tables] : k \in 1..n}

NextBackup ==
    \/ Tick
    \/ \E inst \in Instances : BackupCall(inst)
    \/ BackupEnter
    \/ BackupExit
    \/ SignalHandler
    \/ \E g \in StoreGroupIds : AddGroupEnter(g)
    \/ AddGroupExit

SpecBackup == InitBackup /\ [][NextBackup]_vars

\* C20: after every backup_database call that returns a path the backup
\* directory holds at most 5 snapshot files, the file just created is among
\* them and the files kept are the most recently created ones (every file
\* removed is older than every file kept), for any number of successive
\* backups.
C20_KeepsNewestFive ==
    [][BackupExit =>
         LET FileNames(files) == {f.name : f \in files}
         IN
         /\ Cardinality(backups') <= KeepBackups
         /\ Cardinality(FileNames(backups')) = Cardinality(backups')
         /\ bk.file \in FileNames(backups')
         /\ FileNames(backups') \subseteq FileNames(backups) \cup {bk.file}
         /\ \A a \in (FileNames(backups) \cup {bk.file}) \ FileNames(backups') :
               \A b \in FileNames(backups') : a < b]_vars

\* two backups have pushed the two oldest files out
C20_Witness == {f.name : f \in backups} = {0 - 3, 0 - 2, 0 - 1, 0, 1}

-----------------------------------------------------------------------------
(* Manual reconciliation of one group, repeated: a caller calls             *)
(* process_group(g) twice in succession with force_update False, the        *)
(* platform creates every link asked for, and nothing else runs.  The store *)
(* holds up to two groups, each as add_group, process_group or a cycle of   *)
(* the monitor leaves it.                                                   *)


\* the groups row of g: incomplete without a link, incomplete with a link, complete
ManualRows(g) ==
    {[group_id |-> g, group_name |-> NullName, invite_link |-> Null],
     [group_id |-> g, group_name |-> NullName, invite_link |-> "k1"],
     [group_id |-> g, group_name |-> GroupName("Ana", <<<<"a">>>>), invite_link |-> "k1"]}

InitManual ==
    /\ users = <<>> /\ keywords = {} /\ tweets = {}
    /\ groups \in {<<>>} \cup {<<a>> : a \in ManualRows("g1") \cup ManualRows("")}
                  \cup {<<a, b>> : a \in ManualRows("g1"), b \in ManualRows("")}
                  \cup {<<b, a>> : a \in ManualRows("g1"), b \in ManualRows("")}
    /\ lock = [i \in Instances |-> FALSE]
    /\ req = [r \in Reqs |-> IdleReq]
    /\ completed = {}
    /\ running = FALSE /\ thread = 0
    /\ worker = [w \in Threads |-> NoWorker]
    /\ linkCount = 1
    /\ invited = <<>>
    /\ op = IdleOp
    /\ bk = IdleBk /\ backups = {} /\ taken = {} /\ clock = 0
    /\ \E g \in RegGroupIds : manual = [group_id |-> g, returns |-> <<>>]
    /\ db = [i \in Instances |-> "ready"]

\* the caller's next call, after the previous one has returned
ManualCall ==
    /\ manual # NoManual
    /\ Len(manual.returns) < 2
    /\ PgReadEnter(manual.group_id, FALSE)

NextManual ==
    \/ ManualCall
    \/ PgReadExit
    \/ PgAddEnter
    \/ PgAddExit
    \/ PgGenerate(TRUE)
    \/ PgUpdEnter
    \/ PgUpdExit

SpecManual == InitManual /\ [][NextManual]_vars

\* C22: manual single-group reconciliation is idempotent: for every group
\* identifier g and every store state, process_group(g) called twice in
\* succession (force_update false, provisioning succeeding) leaves the groups
\* relation as one call leaves it.
C22_ProcessGroupIdempotent ==
    Len(manual.returns) = 2 => manual.returns[2] = manual.returns[1]

-----------------------------------------------------------------------------
(* The iterations of the reconciliation cycles with their failures: the one *)
(* worker runs cycle after cycle on a store with two incomplete groups and  *)
(* one or two unassigned subscribers; provisioning and delivery fail or     *)
(* succeed, the storage raises inside the worker's operations, and         *)
(* subscribers are removed and registered while the worker holds a row.     *)

IterKeywordTexts == {<<"b">>}

InitIter ==
    /\ \E n \in 1..2 :
          /\ users = [i \in 1..n |-> FanoutUser(i, Null)]
          /\ keywords = UNION {{[user_id |-> i, keyword |-> k] : k \in SeqToSet(FanoutKeywords[i])} : i \in 1..n}
    /\ groups = <<CycleGroup("g1", Null), CycleGroup("g2", Null)>>
    /\ tweets = {}
    /\ lock = [i \in Instances |-> FALSE]
    /\ req = [r \in Reqs |-> IdleReq]
    /\ completed = {}
    /\ running = TRUE /\ thread = 1
    /\ worker = [w \in Threads |-> IF w = 1 THEN [NoWorker EXCEPT !.pc = "while"] ELSE NoWorker]
    /\ linkCount = 0
    /\ invited = <<>>
    /\ op = IdleOp
    /\ bk = IdleBk /\ backups = {} /\ taken = {} /\ clock = 0
    /\ manual = NoManual
    /\ db = [i \in Instances |-> "ready"]

NextIter ==
    \/ \E w \in SoleThread : WorkerStep(w) \/ WorkerFault(w) \/ LoopExcept(w)
    \/ \E c \in RegChats : RemoveUserEnter(c)
    \/ RemoveUserExit
    \/ \E c \in RegChats, t \in IterKeywordTexts : AddUserEnter(c, NameOf(c), t)
    \/ AddUserExit

SpecIter == InitIter /\ [][NextIter]_vars

\* C26: in a reconciliation cycle, when invitation provisioning for a group
\* fails or persisting the group completion fails, the group is left as it
\* was, no subscriber is bound and no invitation is delivered, and the cycle
\* continues with the next incomplete group of its list, for which it asks
\* for the oldest unassigned subscriber again.
C26_FailureSkipsGroup ==
    [][\A w \in Threads :
          LET ProvisioningFails ==
                  worker[w].pc = "invite" /\ worker'[w].pc # "invite" /\ linkCount' = linkCount
              CompletionFails ==
                  worker[w].pc = "upd_group_in" /\ worker'[w].pc \notin {"upd_group_in", "upd_user"}
          IN
          ((ProvisioningFails \/ CompletionFails) /\ SkipComplete(Tail(worker[w].todo)) # <<>>) =>
              /\ UNCHANGED <<users, groups, invited>>
              /\ worker'[w].pc = "user"
              /\ worker'[w].todo = SkipComplete(Tail(worker[w].todo))]_vars

\* the users row of chat_id carries the binding
BoundTo(us, chat_id, group_id, group_name, invite_link) ==
    \E i \in 1..Len(us) :
        /\ us[i].chat_id = chat_id /\ us[i].group_id = group_id
        /\ us[i].group_name = group_name /\ us[i].invite_link = invite_link

\* the groups row of group_id carries the completion
CompletedAs(gs, group_id, group_name, invite_link) ==
    \E i \in 1..Len(gs) :
        /\ gs[i].group_id = group_id
        /\ gs[i].group_name = group_name /\ gs[i].invite_link = invite_link

\* C27: ordering within a reconciliation step: the worker comes to deliver an
\* invitation only by a binding write that has stored the pair, on a group
\* whose completion is stored; every delivery is made from there, to that
\* subscriber with that invitation, and changes no stored state whether it
\* succeeds or fails; a binding write that fails delivers nothing.
C27_InviteAfterPersist ==
    [][\A w \in Threads :
          /\ (worker'[w].pc = "send" /\ worker[w].pc # "send") =>
                /\ worker[w].pc = "upd_user_in"
                /\ BoundTo(users', worker[w].user[1].chat_id, Head(worker[w].todo).group_id,
                           worker[w].group_name, worker[w].invite_link)
                /\ CompletedAs(groups', Head(worker[w].todo).group_id,
                               worker[w].group_name, worker[w].invite_link)
                /\ worker'[w].user = worker[w].user /\ worker'[w].invite_link = worker[w].invite_link
          /\ (worker[w].pc = "upd_user_in" /\ worker'[w].pc \notin {"upd_user_in", "send"}) =>
                invited' = invited
          /\ invited' # invited =>
                /\ \E v \in Threads :
                      /\ worker[v].pc = "send"
                      /\ invited' = Append(invited, [chat_id |-> worker[v].user[1].chat_id,
                                                     invite_link |-> worker[v].invite_link])
                /\ UNCHANGED <<users, keywords, groups, tweets>>]_vars

\* an invitation has been delivered for the stored pair of the first group;
\* the second group is complete, and the binding write for it has failed: no
\* subscriber carries its invitation and none has been delivered
C27_Witness ==
    /\ Len(invited) = 1
    /\ BoundTo(users, invited[1].chat_id, groups[1].group_id, groups[1].group_name, invited[1].invite_link)
    /\ CompletedAs(groups, groups[1].group_id, groups[1].group_name, invited[1].invite_link)
    /\ ~GroupIncomplete(groups[2])
    /\ \A i \in 1..Len(users) : users[i].invite_link # groups[2].invite_link
    /\ worker[1].pc = "while"

-----------------------------------------------------------------------------
(* Progress of the reconciliation.  The worker keeps running on a store     *)
(* with unassigned subscribers and incomplete groups.  The thread is        *)
(* scheduled again and again and wakes up from every sleep; for the groups  *)
(* in GroupIds the provisioning of a link and each of the two store     *)
(* writes, tried again and again, succeed at some time; the platform may    *)
(* refuse a link for the other group every time.  The platform creates at   *)
(* most MaxLinks links.                                                     *)

RefusedGroupIds == {"g3"}

InitLive ==
    /\ \E n \in 1..2 :
          /\ users = [i \in 1..n |-> FanoutUser(i, Null)]
          /\ keywords = UNION {{[user_id |-> i, keyword |-> k] : k \in SeqToSet(FanoutKeywords[i])} : i \in 1..n}
    /\ \E order \in Orderings(GroupIds \cup RefusedGroupIds) :
          groups = [i \in 1..Len(order) |-> CycleGroup(order[i], Null)]
    /\ tweets = {}
    /\ lock = [i \in Instances |-> FALSE]
    /\ req = [r \in Reqs |-> IdleReq]
    /\ completed = {}
    /\ running = TRUE /\ thread = 1
    /\ worker = [w \in Threads |-> IF w = 1 THEN [NoWorker EXCEPT !.pc = "while"] ELSE NoWorker]
    /\ linkCount = 0
    /\ invited = <<>>
    /\ op = IdleOp
    /\ bk = IdleBk /\ backups = {} /\ taken = {} /\ clock = 0
    /\ manual = NoManual
    /\ db = [i \in Instances |-> "ready"]

\* the worker's steps; the storage may raise inside its two writes
NextLive ==
    \E w \in SoleThread :
        \/ WorkerStep(w)
        \/ WorkerFault(w) /\ worker[w].pc \in {"upd_group_in", "upd_user_in"}
        \/ LoopExcept(w)

FairLive ==
    /\ \A w \in SoleThread : WF_vars(WorkerStep(w) \/ LoopExcept(w))
    /\ \A w \in SoleThread : \A g \in GroupIds :
          /\ SF_vars(Invite(w, TRUE) /\ worker[w].todo # <<>> /\ Head(worker[w].todo).group_id = g)
          /\ SF_vars(UpdGroupExit(w) /\ worker[w].todo # <<>> /\ Head(worker[w].todo).group_id = g)
          /\ SF_vars(UpdUserExit(w) /\ worker[w].todo # <<>> /\ Head(worker[w].todo).group_id = g)

SpecLive == InitLive /\ [][NextLive]_vars /\ FairLive

IncompleteInStore(g) == \E i \in 1..Len(groups) : groups[i].group_id = g /\ GroupIncomplete(groups[i])
UnassignedInStore(c) == \E i \in 1..Len(users) : users[i].chat_id = c /\ UserUnassigned(users[i])

\* C30: progress of reconciliation: while the worker keeps running, with
\* provisioning and store operations succeeding at some time, every
\* incomplete group is eventually completed as long as an unassigned
\* subscriber exists, and every unassigned subscriber is eventually bound as
\* long as such an incomplete group remains; a group whose provisioning may
\* fail forever does not keep the other groups from being completed.
C30_Progress ==
    /\ \A g \in GroupIds :
          (IncompleteInStore(g) /\ \E c \in RegChats : UnassignedInStore(c))
              ~> (~IncompleteInStore(g) \/ (\A c \in RegChats : ~UnassignedInStore(c)) \/ linkCount = MaxLinks)
    /\ \A c \in RegChats :
          (UnassignedInStore(c) /\ \E g \in GroupIds : IncompleteInStore(g))
              ~> (~UnassignedInStore(c) \/ (\A g \in GroupIds : ~IncompleteInStore(g)) \/ linkCount = MaxLinks)

\* both subscribers are bound and both groups complete, while the group the
\* platform refuses, first in the table, is still incomplete, and a storage
\* error has cost one link
C30_Witness ==
    /\ Len(users) = 2 /\ \A c \in RegChats : ~UnassignedInStore(c)
    /\ \A g \in GroupIds : ~IncompleteInStore(g)
    /\ groups[1].group_id = "g3" /\ GroupIncomplete(groups[1])
    /\ linkCount = MaxLinks

\* C31: a storage failure raised inside a reconciliation cycle abandons only
\* that cycle: the worker handles it without touching the store or the
\* running flag and goes to the end of the loop body, it never leaves its
\* loop while the flag is set, and it comes to start a new cycle.
C31_FaultAbandonsCycle ==
    /\ [](\A w \in SoleThread : running /\ worker[w].pc # "exited")
    /\ [][\A w \in SoleThread :
             worker[w].pc = "raised" =>
                 /\ worker'[w] = EndCycle(worker[w])
                 /\ UNCHANGED <<storeVars, running, thread, invited>>]_vars
    /\ \A w \in SoleThread : (worker[w].pc = "raised") ~> (worker[w].pc = "groups")

\* the write of the first cycle's completion has raised after a link was
\* created (no group is complete), and the worker has started a new cycle
C31_Witness ==
    /\ worker[1].pc = "groups"
    /\ linkCount = 1
    /\ \A i \in 1..Len(groups) : GroupIncomplete(groups[i])

\* C32: no store lock is held across an external call: while a request is in
\* its delivery loop the webhook module's lock is held only if another
\* request is inside a store operation, and while a worker is provisioning
\* or delivering an invitation the monitor module's lock is held only if
\* another caller of that module is inside a store operation.
C32_NoLockAcrossExternalCall ==
    /\ \A r \in Reqs :
          (req[r].pc = "send" /\ lock["webhook"]) => \E q \in Reqs \ {r} : ReqInStore(q)
    /\ \A w \in Threads :
          (worker[w].pc \in {"invite", "send"} /\ lock["monitor"]) =>
              \/ \E v \in Threads \ {w} : WorkerInStore(v)
              \/ op.pc \in {"pg_read_in", "pg_add_in", "pg_upd_in"}

\* a request is delivering a post while the worker is delivering an
\* invitation and process_group is inside its read of the groups table
C32_Witness ==
    /\ \E r \in Reqs : req[r].pc = "send" /\ req[r].i <= Len(req[r].users)
    /\ worker[1].pc = "send"
    /\ op.pc = "pg_read_in" /\ lock["monitor"]

-----------------------------------------------------------------------------
(* The worker of SpecLive with a stop() call: setup() has started the one   *)
(* thread, nothing starts another.  The thread is scheduled (weak fairness  *)
(* of its steps); time.sleep returns.                                       *)

SpecStop ==
    /\ InitLive
    /\ [][NextLive \/ Stop]_vars
    /\ \A w \in SoleThread : WF_vars(WorkerStep(w) \/ LoopExcept(w))

\* C33: cooperative stop: once stop() has cleared the flag and no start()
\* follows, the worker's next loop test ends the loop, so it finishes at most
\* the cycle it is in; it does reach that test and exit; an exited worker
\* takes no further step and the store does not change any more.
C33_CooperativeStop ==
    /\ [][\A w \in SoleThread :
             /\ (~running /\ worker[w].pc = "while" /\ worker'[w] # worker[w]) => worker'[w].pc = "exited"
             /\ worker[w].pc = "exited" => UNCHANGED <<worker, storeVars, lock, linkCount, invited>>]_vars
    /\ (~running) ~> (\A w \in SoleThread : worker[w].pc = "exited")

\* stop() was called during a cycle: the worker has finished that cycle
\* (one subscriber bound and invited, the other not) and left its loop
C33_Witness ==
    /\ ~running /\ worker[1].pc = "exited"
    /\ Len(users) = 2 /\ Len(invited) = 1
    /\ \E i \in 1..Len(users) : UserUnassigned(users[i])
    /\ \E i \in 1..Len(groups) : groups[i].group_id \in GroupIds /\ GroupIncomplete(groups[i])

\* C34: one fan-out makes at most one delivery attempt per destination
\* group, whether the attempt succeeds or fails: no two attempts of a
\* request are addressed to the same group.
C34_OneAttemptPerGroup ==
    \A r \in Reqs : \A i, j \in 1..Len(req[r].attempts) :
        i # j => req[r].attempts[i].group_id # req[r].attempts[j].group_id

\* C35: binding consistency between the two relations: every subscriber
\* with a non-empty group binding refers to a group that exists in the
\* groups table and is complete, and carries the display name and the
\* invitation reference stored on that group.
C35_BindingMatchesGroup ==
    \A i \in 1..Len(users) :
        UserHasGroup(users[i]) =>
            \E j \in 1..Len(groups) :
                /\ groups[j].group_id = users[i].group_id
                /\ ~GroupIncomplete(groups[j])
                /\ groups[j].group_name = users[i].group_name
                /\ groups[j].invite_link = users[i].invite_link

-----------------------------------------------------------------------------
(* Construction of the Database object of each module (db = Database() at    *)
(* module level), on the empty database file; the five constructions may    *)
(* come in any order.  Each constructor is scheduled (weak fairness).       *)

InitConstruct ==
    /\ users = <<>> /\ keywords = {} /\ groups = <<>> /\ tweets = {}
    /\ lock = [i \in Instances |-> FALSE]
    /\ req = [r \in Reqs |-> IdleReq]
    /\ completed = {}
    /\ running = FALSE /\ thread = 0
    /\ worker = [w \in Threads |-> NoWorker]
    /\ linkCount = 0
    /\ invited = <<>>
    /\ op = IdleOp
    /\ bk = IdleBk /\ backups = {} /\ taken = {} /\ clock = 0
    /\ manual = NoManual
    /\ db = [i \in Instances |-> "new"]

SpecConstruct ==
    /\ InitConstruct
    /\ [][\E inst \in Instances : InitDb(inst) \/ AddAdminIfNotExists(inst)]_vars
    /\ \A inst \in Instances : WF_vars(InitDb(inst) \/ AddAdminIfNotExists(inst))

\* C36: the store is deadlock-free: the construction of every Database
\* terminates, with the object ready for store operations and its lock
\* released.
C36_ConstructionTerminates ==
    \A inst \in Instances : <>(db[inst] = "ready" /\ ~lock[inst])

\* C37: add_user is all-or-nothing: a call either leaves the users and
\* keywords tables exactly as they were (the address exists, or an insert of
\* a keyword row fails part-way), or adds the users row of a new address
\* together with one keyword row for every term of the keywords text.
C37_AddUserAllOrNothing ==
    [][AddUserExit =>
         \/ users' = users /\ keywords' = keywords
         \/ /\ ~UserExists(users, op.chat_id)
            /\ Len(users') = Len(users) + 1
            /\ SubSeq(users', 1, Len(users)) = users
            /\ users'[Len(users')].chat_id = op.chat_id
            /\ keywords \subseteq keywords'
            /\ {k.keyword : k \in keywords' \ keywords} = {Lower(k) : k \in SeqToSet(KeywordList(op.text))}
            /\ \A k \in keywords' \ keywords : k.user_id = users'[Len(users')].id]_vars

\* add_user is inside its with block for a new address, with a keywords text
\* whose second term repeats the first: the users row and the first keyword
\* row are inserted before the second insert raises
C37_Witness ==
    /\ op.pc = "add_user_in"
    /\ ~UserExists(users, op.chat_id)
    /\ op.text = <<"a", ",", " ", "A">>
    /\ ~AddUserOk(users, keywords, op.chat_id, op.text)

\* C38: the keyword set stored for a subscriber holds only terms that this
\* subscriber declared at its own registration: a registration gives the new
\* subscriber no keyword outside its own keywords text, and a registration
\* of a new address with distinct terms does not fail because of rows that
\* a removed subscriber left behind.
C38_KeywordsAreOwn ==
    [][(AddUserExit /\ ~UserExists(users, op.chat_id)) =>
         LET terms == {Lower(k) : k \in SeqToSet(KeywordList(op.text))}
         IN /\ \A i \in 1..Len(users') :
                  users'[i].chat_id = op.chat_id => KeywordsOf(keywords', users'[i].id) \subseteq terms
            /\ Len(KeywordList(op.text)) = Cardinality(terms) => UserExists(users', op.chat_id)]_vars

\* C39: when a registered subscriber completes the /update conversation by
\* sending new interests, the keyword set stored for the subscriber becomes
\* the set of terms of the text sent.
C39_UpdateStoresKeywords ==
    [][\A t \in KeywordTexts :
          UpdateInterests(t) =>
              \E i \in 1..Len(users') :
                  /\ users'[i].chat_id = op.chat_id
                  /\ KeywordsOf(keywords', users'[i].id) = {Lower(k) : k \in SeqToSet(KeywordList(t))}]_vars

====
